---- MODULE Spec2Model ----
(***************************************************************************)
(* Model of the tag store of smexybot (src/src/command/tag.rs): the        *)
(* in-memory namespace map behind one Mutex, its whole-file persistence,   *)
(* and the command handlers create / info / list / edit / delete / invoke  *)
(* run by concurrent command-handling tasks.                               *)
(*                                                                         *)
(* Strings are sequences of Unicode code points.  Every region of a        *)
(* handler that runs while the Mutex guard is alive is one atomic step;    *)
(* the handler-local computation that follows a region (owner check,       *)
(* content check, uses += 1) touches only the task's own clone of the tag  *)
(* and is folded into the step that precedes it.                           *)
(***************************************************************************)
EXTENDS Naturals, Sequences, FiniteSets, TLC

VARIABLES
    tags,      \* Config.tags: namespace key -> (tag name -> Tag)
    file,      \* content of tags.json: None, or Some(document)
    temp,      \* the "<uuid>-tags.json.tmp" a failed save left: None, or Some(document)
    poisoned,  \* TRUE once a task has panicked while holding TAGS.config
    clock,     \* UTC::now(), as a counter
    task,      \* per command-handling task: position and local variables
    reply      \* the last answer said (or the panic of the last thread that died)

vars == <<tags, file, temp, poisoned, clock, task, reply>>

----------------------------------------------------------------------------
(* Bounds of the model *)

\* uses is a u32; invocations are cut off at this value
MaxUses == 1
\* number of creations (clock readings) explored
MaxClock == 2

\* program constant: the limit of verify_tag_name
NameLimit == 100

Tasks == {"t1", "t2"}
Guilds == {1}
Users == {1, 2}

----------------------------------------------------------------------------
(* Option values *)

None == <<>>
Some(x) == <<x>>
IsSome(o) == o # <<>>
Unwrap(o) == o[1]

----------------------------------------------------------------------------
(* Strings *)

RECURSIVE Repeat(_, _)
Repeat(c, n) == IF n = 0 THEN <<>> ELSE <<c>> \o Repeat(c, n - 1)

\* char::to_lowercase on the code points the model uses (ASCII and Latin-1)
ToLowerChar(c) ==
    IF c \in 65..90 THEN c + 32
    ELSE IF c \in 192..222 /\ c # 215 THEN c + 32
    ELSE c

ToLowercase(s) == [i \in 1..Len(s) |-> ToLowerChar(s[i])]

IsWhitespace(c) == c \in {9, 10, 11, 12, 13, 32, 133, 160}

RECURSIVE TrimStart(_)
TrimStart(s) ==
    IF s # <<>> /\ IsWhitespace(Head(s)) THEN TrimStart(Tail(s)) ELSE s

RECURSIVE TrimEnd(_)
TrimEnd(s) ==
    IF s # <<>> /\ IsWhitespace(s[Len(s)])
    THEN TrimEnd(SubSeq(s, 1, Len(s) - 1))
    ELSE s

Trim(s) == TrimEnd(TrimStart(s))

\* number of bytes of the UTF-8 encoding of one code point
Utf8Len(c) ==
    IF c < 128 THEN 1 ELSE IF c < 2048 THEN 2 ELSE IF c < 65536 THEN 3 ELSE 4

\* str::len: the length in bytes
RECURSIVE StrLen(_)
StrLen(s) == IF s = <<>> THEN 0 ELSE Utf8Len(Head(s)) + StrLen(Tail(s))

\* str::contains
Contains(s, sub) ==
    \E i \in 1..(Len(s) + 1) :
        /\ i + Len(sub) - 1 <= Len(s)
        /\ SubSeq(s, i, i + Len(sub) - 1) = sub

\* Vec<String>::join(" ")
RECURSIVE Join(_)
Join(ws) ==
    IF ws = <<>> THEN <<>>
    ELSE IF Len(ws) = 1 THEN ws[1]
    ELSE ws[1] \o <<32>> \o Join(Tail(ws))

\* "@everyone" and "@here"
AtEveryone == <<64, 101, 118, 101, 114, 121, 111, 110, 101>>
AtHere == <<64, 104, 101, 114, 101>>

----------------------------------------------------------------------------
(* Maps (HashMap) *)

EmptyMap == <<>>
MapInsert(m, k, v) == [x \in (DOMAIN m) \cup {k} |-> IF x = k THEN v ELSE m[x]]
MapRemove(m, k) == [x \in (DOMAIN m) \ {k} |-> m[x]]
MapGet(m, k) == IF k \in DOMAIN m THEN Some(m[k]) ELSE None

\* util::merge(first, second): entries of second take precedence
Merge(first, second) ==
    [k \in (DOMAIN first) \cup (DOMAIN second) |->
        IF k \in DOMAIN second THEN second[k] ELSE first[k]]

----------------------------------------------------------------------------
(* Tag *)

\* Tag::new with the default of uses off by one
TagNewUsesOne(name, content, owner_id, uses, location, created_at, now) ==
    [name |-> name,
     content |-> content,
     owner_id |-> owner_id,
     uses |-> IF IsSome(uses) THEN Unwrap(uses) ELSE 1,
     location |-> location,
     created_at |-> IF IsSome(created_at) THEN Unwrap(created_at) ELSE now]

\* Tag::new; now is the reading of UTC::now()
TagNew(name, content, owner_id, uses, location, created_at, now) ==
    [name |-> name,
     content |-> content,
     owner_id |-> owner_id,
     uses |-> IF IsSome(uses) THEN Unwrap(uses) ELSE 0,
     location |-> location,
     created_at |-> IF IsSome(created_at) THEN Unwrap(created_at) ELSE now]

\* Tag::is_generic
IsGeneric(tag) == ~IsSome(tag.location)

\* GuildId's Display: the decimal digits of the id
GuildToString(g) == CASE g = 1 -> "1" [] g = 2 -> "2" [] g = 3 -> "3"

\* get_database_location
GetDatabaseLocation(guild) ==
    IF IsSome(guild) THEN GuildToString(Unwrap(guild)) ELSE "generic"

\* verify_tag_name: Ok, or the error message
VerifyTagName(name) ==
    IF Contains(name, AtEveryone) \/ Contains(name, AtHere)
    THEN "Tag contains blocked words"
    ELSE IF StrLen(name) > NameLimit
    THEN "Tag name limit is 100 characters"
    ELSE "Ok"

\* owner_check
OwnerCheck(author, tag) == author = tag.owner_id

----------------------------------------------------------------------------
(* Config and Tags, on the value of Config.tags *)

\* Config::get
ConfigGet(cfg, key) == MapGet(cfg, key)

\* Tags::get_possible_tags with the arguments of merge swapped
GetPossibleTagsGenericWins(cfg, guild) ==
    LET g0 == ConfigGet(cfg, "generic")
        generic == IF IsSome(g0) THEN Unwrap(g0) ELSE EmptyMap
    IN  IF ~IsSome(guild) THEN generic
        ELSE LET d0 == ConfigGet(cfg, GuildToString(Unwrap(guild)))
             IN  Merge(IF IsSome(d0) THEN Unwrap(d0) ELSE EmptyMap, generic)

\* Tags::get_possible_tags, once the lock is taken
GetPossibleTags(cfg, guild) ==
    LET g0 == ConfigGet(cfg, "generic")
        generic == IF IsSome(g0) THEN Unwrap(g0) ELSE EmptyMap
    IN  IF ~IsSome(guild) THEN generic
        ELSE LET d0 == ConfigGet(cfg, GuildToString(Unwrap(guild)))
             IN  Merge(generic, IF IsSome(d0) THEN Unwrap(d0) ELSE EmptyMap)

\* Tags::get_tag: Some(tag), or None for Err("Tag not found")
GetTag(cfg, guild, name) == MapGet(GetPossibleTags(cfg, guild), name)

\* create, line 270: database.contains_key(&name)
TagExists(database, name) == name \in DOMAIN database

\* the bucket put_tag and delete_tag unwrap exists
HasDatabase(cfg, guild) == GetDatabaseLocation(guild) \in DOMAIN cfg

\* Tags::put_tag: the map after database.insert(name, tag)
PutTagMap(cfg, guild, name, tag) ==
    LET loc == GetDatabaseLocation(guild)
    IN  [cfg EXCEPT ![loc] = MapInsert(cfg[loc], name, tag)]

\* Tags::delete_tag: the map after database.remove(name)
DeleteTagMap(cfg, guild, name) ==
    LET loc == GetDatabaseLocation(guild)
    IN  [cfg EXCEPT ![loc] = MapRemove(cfg[loc], name)]

\* create, lines 267-281: the map after config.insert(location, database)
CreateMap(cfg, location, name, tag) ==
    LET d0 == ConfigGet(cfg, location)
        database == IF IsSome(d0) THEN Unwrap(d0) ELSE EmptyMap
    IN  MapInsert(cfg, location, MapInsert(database, name, tag))

\* an integer as JSON writes it: its decimal digits
RECURSIVE DecimalDigits(_)
DecimalDigits(n) ==
    IF n < 10 THEN <<48 + n>>
    ELSE DecimalDigits(n \div 10) \o <<48 + (n % 10)>>

\* the JSON numbers of the integers the model writes, computed once
JsonNumbers == [n \in 0..99 |-> <<"number", DecimalDigits(n)>>]
JsonNumber(n) == JsonNumbers[n]

\* the integer that a run of decimal digits stands for
RECURSIVE ParseDecimal(_)
ParseDecimal(s) ==
    IF s = <<>> THEN 0
    ELSE 10 * ParseDecimal(SubSeq(s, 1, Len(s) - 1)) + (s[Len(s)] - 48)

\* a DateTime<UTC> as ISO-8601 text, "1970-01-01T00:00:02Z": the clock
\* reading t is the instant t seconds after the epoch (t below one day)
Iso8601Text(t) ==
    LET h == t \div 3600
        m == (t \div 60) % 60
        s == t % 60
    IN  <<49, 57, 55, 48, 45, 48, 49, 45, 48, 49, 84,
          48 + (h \div 10), 48 + (h % 10), 58,
          48 + (m \div 10), 48 + (m % 10), 58,
          48 + (s \div 10), 48 + (s % 10), 90>>

\* the JSON strings of the clock readings the model takes, computed once
JsonTimestamps == [t \in 0..(MaxClock + 1) |-> <<"string", Iso8601Text(t)>>]
JsonTimestamp(t) == JsonTimestamps[t]

\* the DateTime<UTC> that an ISO-8601 text of that day stands for
ParseIso8601(s) ==
    3600 * (10 * (s[12] - 48) + (s[13] - 48))
        + 60 * (10 * (s[15] - 48) + (s[16] - 48))
        + (10 * (s[18] - 48) + (s[19] - 48))

\* serde_json::to_string(&self.tags): the JSON text, an object being the set
\* of its key/value pairs, a value <<"null">>, <<"string", s>> or
\* <<"number", digits>>
SerializeTag(tag) ==
    [name |-> <<"string", tag.name>>,
     content |-> <<"string", tag.content>>,
     owner_id |-> JsonNumber(tag.owner_id),
     uses |-> JsonNumber(tag.uses),
     location |-> IF IsSome(tag.location)
                  THEN <<"string", Unwrap(tag.location)>> ELSE <<"null">>,
     created_at |-> JsonTimestamp(tag.created_at)]
Serialize(cfg) ==
    {<<ns, {<<n, SerializeTag(cfg[ns][n])>> : n \in DOMAIN cfg[ns]}>> :
        ns \in DOMAIN cfg}

\* serde_json::from_str, load line 130: the map a JSON text stands for
\* (DeserializeNonEmpty: a parse that drops the namespaces without tags)
DeserializeTag(j) ==
    [name |-> j.name[2],
     content |-> j.content[2],
     owner_id |-> ParseDecimal(j.owner_id[2]),
     uses |-> ParseDecimal(j.uses[2]),
     location |-> IF j.location[1] = "string" THEN Some(j.location[2]) ELSE None,
     created_at |-> ParseIso8601(j.created_at[2])]
DeserializeNonEmpty(json) ==
    LET kept == {p \in json : p[2] # {}}
    IN  [ns \in {p[1] : p \in kept} |->
            LET entries == (CHOOSE p \in kept : p[1] = ns)[2]
            IN  [n \in {e[1] : e \in entries} |->
                    DeserializeTag((CHOOSE e \in entries : e[1] = n)[2])]]
Deserialize(json) ==
    [ns \in {p[1] : p \in json} |->
        LET entries == (CHOOSE p \in json : p[1] = ns)[2]
        IN  [n \in {e[1] : e \in entries} |->
                DeserializeTag((CHOOSE e \in entries : e[1] = n)[2])]]

\* a file's content: the JSON text of a map, whole, or cut off somewhere
\* before its end
Document(cfg) == [json |-> Serialize(cfg), complete |-> TRUE]
Truncated(cfg) == [json |-> Serialize(cfg), complete |-> FALSE]

\* the outcomes of the file operations of Config::save: all done, or the
\* one that fails (or at which the process is killed)
SaveOutcomes == {"done", "create failed", "write failed", "rename failed"}

\* a save that writes to the target path itself
SaveInPlace(cfg, old, io) ==
    [file |-> CASE io = "done" -> Some(Document(cfg))
                [] io = "create failed" -> old
                [] io = "write failed" -> Some(Truncated(cfg))
                [] io = "rename failed" -> Some(Document(cfg)),
     temp |-> None,
     ok |-> io = "done"]

\* Config::save: the target path and the temporary file afterwards, and
\* whether save returned (each expect(..) panics otherwise)
Save(cfg, old, io) ==
    [file |-> IF io = "done" THEN Some(Document(cfg)) ELSE old,
     temp |-> CASE io = "done" -> None
                [] io = "create failed" -> None
                [] io = "write failed" -> Some(Truncated(cfg))
                [] io = "rename failed" -> Some(Document(cfg)),
     ok |-> io = "done"]

\* the outcomes explored where the handlers are: save completes, or the
\* write to the temporary file fails
SaveFaults == {"done", "write failed"}

\* the outcomes of the file operations of Config::load on a file that exists
LoadOutcomes == {"done", "open failed", "read failed"}

\* a load that starts from an empty map whenever it cannot get one from
\* the file
LoadLenient(f, io) ==
    IF IsSome(f) /\ io = "done" /\ Unwrap(f).complete
    THEN [res |-> "loaded", cfg |-> Deserialize(Unwrap(f).json)]
    ELSE [res |-> "fresh", cfg |-> EmptyMap]

\* Config::load on the empty map of Config::new: the map afterwards
Load(f, io) ==
    IF ~IsSome(f) THEN [res |-> "fresh", cfg |-> EmptyMap]
    ELSE IF io # "done" THEN [res |-> "panic", cfg |-> EmptyMap]
    ELSE IF ~Unwrap(f).complete THEN [res |-> "panic", cfg |-> EmptyMap]
    ELSE [res |-> "loaded", cfg |-> Deserialize(Unwrap(f).json)]

\* what the handler says once its locked region has saved: nothing, when
\* save panicked
SaidAnyway(ok, said) == said

Said(ok, said) == IF ok THEN said ELSE "panic"

\* String's Ord: byte-wise, which for UTF-8 is code point by code point
RECURSIVE StrLess(_, _)
StrLess(a, b) ==
    IF b = <<>> THEN FALSE
    ELSE IF a = <<>> THEN TRUE
    ELSE IF Head(a) # Head(b) THEN Head(a) < Head(b)
    ELSE StrLess(Tail(a), Tail(b))

\* the keys of the map from the largest to the smallest
RECURSIVE NamesDescending(_)
NamesDescending(S) ==
    IF S = {} THEN <<>>
    ELSE LET m == CHOOSE x \in S : \A y \in S \ {x} : StrLess(y, x)
         IN  <<m>> \o NamesDescending(S \ {m})

\* list, lines 307-310: the keys of the map, sorted
RECURSIVE SortNames(_)
SortNames(S) ==
    IF S = {} THEN <<>>
    ELSE LET m == CHOOSE x \in S : \A y \in S \ {x} : StrLess(x, y)
         IN  <<m>> \o SortNames(S \ {m})

----------------------------------------------------------------------------
(* Inputs of the handlers *)

NameA == <<97>>                                     \* "a"
NameUpper == <<65>>                                 \* "A"
NameHere == <<64, 72, 101, 114, 101>>               \* "@Here"

\* the first argument of create (the names verify_tag_name refuses are the
\* inputs of SpecNames)
NameArgs == {None, Some(NameUpper)}
\* the first argument of the handlers that look a tag up
LookupArgs == {None, Some(NameUpper)}

WordHi == <<104, 105>>                              \* "hi"
WordYo == <<121, 111>>                              \* "yo"
ContentArgs == {<<>>, <<WordHi>>, <<WordHi, WordYo>>}

GuildArgs == {None} \cup {Some(g) : g \in Guilds}

----------------------------------------------------------------------------
(* What each lock-holding region of a handler does, as a function of the   *)
(* state it finds and of its arguments.  res is the message the handler    *)
(* says or the Err it returns ("panic" when its thread panics), cfg the    *)
(* value of Config.tags it leaves, save whether it goes on to             *)
(* Config::save, poison whether it panics while the guard is alive.        *)

Out(res, cfg, save, poison) ==
    [res |-> res, cfg |-> cfg, save |-> save, poison |-> poison]

\* a handler that returns Err(msg) with a save behind it
ErrAfterSave(msg, cfg) == Out(msg, cfg, TRUE, FALSE)

\* the handler returns Err(msg) before it changes anything
Err(msg, cfg) == Out(msg, cfg, FALSE, FALSE)

\* lock().expect(..) on the poisoned Mutex panics
PanicOnLock(cfg) == Out("panic", cfg, FALSE, FALSE)

\* create, lines 247-281
CreateStep(cfg, psn, now, guild, nameArg, contentArgs, author) ==
    IF ~IsSome(nameArg) THEN Err("Please specify a name for the tag.", cfg)
    ELSE IF contentArgs = <<>>
    THEN Err("Please specify some content for the tag.", cfg)
    ELSE
      LET content == Join(contentArgs)
          name == ToLowercase(Trim(Unwrap(nameArg)))
          verdict == VerifyTagName(name)
          location == GetDatabaseLocation(guild)
          d0 == ConfigGet(cfg, location)
          database == IF IsSome(d0) THEN Unwrap(d0) ELSE EmptyMap
          tag == TagNew(name, content, author, None, Some(location), None, now)
      IN  IF verdict # "Ok" THEN Err(verdict, cfg)
          ELSE IF psn THEN PanicOnLock(cfg)
          ELSE IF TagExists(database, name) THEN Err("Tag already exists.", cfg)
          ELSE Out("created", CreateMap(cfg, location, name, tag), TRUE, FALSE)

\* the first half of a handler that looks a tag up: res is "found" when it
\* goes on to put_tag or delete_tag with the clone tag under name
Found(name, tag) == [res |-> "found", name |-> name, tag |-> tag]
NotFound(msg) == [res |-> msg, name |-> <<>>, tag |-> None]

\* tag, the invoke-by-name branch, lines 215-223
InvokeStep(cfg, psn, guild, nameArg) ==
    IF ~IsSome(nameArg)
    THEN NotFound("Either specify a tag name or use one of the available commands.")
    ELSE IF psn THEN NotFound("panic")
    ELSE LET lookup == ToLowercase(Unwrap(nameArg))
             got == GetTag(cfg, guild, lookup)
         IN  IF ~IsSome(got) THEN NotFound("Tag not found")
             ELSE Found(lookup, Some([Unwrap(got) EXCEPT !.uses = @ + 1]))

\* edit, lines 322-349
EditStep(cfg, psn, guild, nameArg, contentArgs, author) ==
    IF ~IsSome(nameArg) THEN NotFound("Please specify a tag to edit.")
    ELSE IF psn THEN NotFound("panic")
    ELSE LET name == ToLowercase(Trim(Unwrap(nameArg)))
             got == GetTag(cfg, guild, name)
         IN  IF ~IsSome(got) THEN NotFound("Tag not found")
             ELSE IF ~OwnerCheck(author, Unwrap(got))
             THEN NotFound("You do not have permission to do that.")
             ELSE IF contentArgs = <<>>
             THEN NotFound("Please specify some content for the tag.")
             ELSE Found(name, Some([Unwrap(got) EXCEPT !.content = Join(contentArgs)]))

\* delete, lines 357-375
DeleteStep(cfg, psn, guild, nameArg, author) ==
    IF ~IsSome(nameArg) THEN NotFound("Please specify a tag to delete.")
    ELSE IF psn THEN NotFound("panic")
    ELSE LET name == ToLowercase(Trim(Unwrap(nameArg)))
             got == GetTag(cfg, guild, name)
         IN  IF ~IsSome(got) THEN NotFound("Tag not found")
             ELSE IF ~OwnerCheck(author, Unwrap(got))
             THEN NotFound("You do not have permission to do that.")
             ELSE Found(name, None)

\* info, lines 287-301
InfoStep(cfg, psn, guild, nameArg) ==
    IF ~IsSome(nameArg)
    THEN NotFound("Please specify a name for the tag to get info on.")
    ELSE IF psn THEN NotFound("panic")
    ELSE LET name == ToLowercase(Trim(Unwrap(nameArg)))
             got == GetTag(cfg, guild, name)
         IN  IF ~IsSome(got) THEN NotFound("Tag not found") ELSE Found(name, got)

\* list, lines 304-317: the names it says, or the panic
ListStep(cfg, psn, guild) ==
    IF psn THEN [res |-> "panic", names |-> <<>>]
    ELSE LET names == SortNames(DOMAIN GetPossibleTags(cfg, guild))
         IN  [res |-> IF names = <<>> THEN "No tags available." ELSE "Available tags",
              names |-> names]

\* Tags::put_tag, up to config.save()
PutTagStep(cfg, psn, guild, name, tag) ==
    IF psn THEN PanicOnLock(cfg)
    ELSE IF ~HasDatabase(cfg, guild) THEN Out("panic", cfg, FALSE, TRUE)
    ELSE Out("stored", PutTagMap(cfg, guild, name, tag), TRUE, FALSE)

\* Tags::delete_tag, up to config.save()
DeleteTagStep(cfg, psn, guild, name) ==
    IF psn THEN PanicOnLock(cfg)
    ELSE IF ~HasDatabase(cfg, guild) THEN Out("panic", cfg, FALSE, TRUE)
    ELSE Out("deleted", DeleteTagMap(cfg, guild, name), TRUE, FALSE)

----------------------------------------------------------------------------
(* State *)

IdleTask ==
    [pc |-> "idle", op |-> "none", guild |-> None, name |-> <<>>, tag |-> None,
     msg |-> "none"]

\* the answer said last, or the panic of the thread that died last
Reply(res) == [res |-> res]

\* Config::new on a fresh directory: load finds no file
Init ==
    /\ tags = EmptyMap
    /\ file = None
    /\ temp = None
    /\ poisoned = FALSE
    /\ clock = 0
    /\ task = [t \in Tasks |-> IdleTask]
    /\ reply = Reply("none")

\* the locked region of task t is over and every guard is dropped; what is
\* left of the handler is to say msg (context.say in the handler, or the
\* after hook for an Err)
Saying(t, msg) ==
    task' = [task EXCEPT ![t] = [IdleTask EXCEPT !.pc = "say", !.msg = msg]]

\* create has saved and is in context.say (line 282) with its guard of line
\* 266 alive: msg is left to say, and TAGS.config stays locked until it is
SayingUnderGuard(t, msg) ==
    task' = [task EXCEPT ![t] = [IdleTask EXCEPT !.pc = "say held", !.msg = msg]]

\* no task holds the guard of TAGS.config (between two steps only the
\* create that is saying holds it)
Unlocked == \A u \in Tasks : task[u].pc # "say held"

\* a handler's step can be taken: the lock is free, or the step ends in one
\* of the Errs that the handler returns before it asks for the lock
Runs(res, beforeLock) == Unlocked \/ res \in beforeLock

\* the thread of task t panics: nothing is said
Panicked(t) ==
    /\ reply' = Reply("panic")
    /\ task' = [task EXCEPT ![t] = IdleTask]

\* the end of a lock-holding region of task t that did r.  With r.save,
\* config.save() runs under the guard; a save that fails panics in
\* expect(..) with the guard alive.  After a save that completed, said is
\* left to say: with the guard still alive when underGuard (create, line
\* 282), after put_tag or delete_tag has returned and dropped it otherwise.
\* Without r.save the region has panicked, or the handler returns Err(r.res).
Finish(t, r, said, underGuard, ios) ==
    /\ tags' = r.cfg
    /\ IF r.save
       THEN \E io \in ios :
              LET s == Save(r.cfg, file, io)
                  answer == Said(s.ok, said)
              IN  /\ file' = s.file
                  /\ temp' = s.temp
                  /\ poisoned' = ~s.ok
                  /\ IF answer = "panic" THEN Panicked(t)
                     ELSE /\ IF underGuard THEN SayingUnderGuard(t, answer)
                                           ELSE Saying(t, answer)
                          /\ reply' = reply
       ELSE /\ file' = file
            /\ temp' = temp
            /\ poisoned' = (poisoned \/ r.poison)
            /\ IF r.res = "panic" THEN Panicked(t)
               ELSE /\ Saying(t, r.res)
                    /\ reply' = reply

\* the end of the locked region of a handler that only looked a tag up, or
\* that returns Err before put_tag or delete_tag: the answer is still to be
\* said; a panic on the poisoned lock says nothing
Answer(t, res) ==
    /\ IF res = "panic" THEN Panicked(t)
       ELSE /\ Saying(t, res)
            /\ reply' = reply
    /\ UNCHANGED <<tags, file, temp, poisoned, clock>>

\* the handler goes on to put_tag or delete_tag with what it looked up
Continue(t, pc, op, guild, f) ==
    /\ task' = [task EXCEPT ![t] =
           [pc |-> pc, op |-> op, guild |-> guild, name |-> f.name, tag |-> f.tag,
            msg |-> "none"]]
    /\ UNCHANGED <<tags, file, temp, poisoned, clock, reply>>

----------------------------------------------------------------------------
(* The handlers *)

\* create
Create(t, guild, nameArg, contentArgs, author, ios) ==
    /\ task[t].pc = "idle"
    /\ LET r == CreateStep(tags, poisoned, clock, guild, nameArg, contentArgs, author)
       IN  /\ Runs(r.res, {"Please specify a name for the tag.",
                           "Please specify some content for the tag.",
                           "Tag contains blocked words",
                           "Tag name limit is 100 characters"})
           /\ r.save => clock < MaxClock
           /\ clock' = IF r.save THEN clock + 1 ELSE clock
           /\ Finish(t, r, "created", TRUE, ios)

\* info
Info(t, guild, nameArg) ==
    /\ task[t].pc = "idle"
    /\ LET f == InfoStep(tags, poisoned, guild, nameArg)
       IN  /\ Runs(f.res, {"Please specify a name for the tag to get info on."})
           /\ Answer(t, IF f.res = "found" THEN "embed" ELSE f.res)

\* list
List(t, guild) ==
    /\ task[t].pc = "idle"
    /\ Unlocked
    /\ Answer(t, ListStep(tags, poisoned, guild).res)

\* tag, the invoke-by-name branch up to the call of put_tag
InvokeGet(t, guild, nameArg) ==
    /\ task[t].pc = "idle"
    /\ LET f == InvokeStep(tags, poisoned, guild, nameArg)
       IN  /\ Runs(f.res, {"Either specify a tag name or use one of the available commands."})
           /\ IF f.res # "found" THEN Answer(t, f.res)
              ELSE /\ Unwrap(f.tag).uses <= MaxUses
                   /\ Continue(t, "put", "invoke", guild, f)

\* edit, up to the call of put_tag
EditGet(t, guild, nameArg, contentArgs, author) ==
    /\ task[t].pc = "idle"
    /\ LET f == EditStep(tags, poisoned, guild, nameArg, contentArgs, author)
       IN  /\ Runs(f.res, {"Please specify a tag to edit."})
           /\ IF f.res # "found" THEN Answer(t, f.res)
              ELSE Continue(t, "put", "edit", guild, f)

\* Tags::put_tag; its caller's say (edit line 352, tag line 225) is left to do
PutTag(t, ios) ==
    /\ task[t].pc = "put"
    /\ Unlocked
    /\ Finish(t, PutTagStep(tags, poisoned, task[t].guild, task[t].name,
                            Unwrap(task[t].tag)),
              IF task[t].op = "invoke" THEN "content" ELSE "updated", FALSE, ios)
    /\ UNCHANGED clock

\* delete, up to the call of delete_tag
DeleteGet(t, guild, nameArg, author) ==
    /\ task[t].pc = "idle"
    /\ LET f == DeleteStep(tags, poisoned, guild, nameArg, author)
       IN  /\ Runs(f.res, {"Please specify a tag to delete."})
           /\ IF f.res # "found" THEN Answer(t, f.res)
              ELSE Continue(t, "delete", "delete", guild, f)

\* Tags::delete_tag; delete's say (line 379) is left to do
DeleteTag(t, ios) ==
    /\ task[t].pc = "delete"
    /\ Unlocked
    /\ Finish(t, DeleteTagStep(tags, poisoned, task[t].guild, task[t].name),
              "deleted", FALSE, ios)
    /\ UNCHANGED clock

\* context.say(..) / send_message(..) of a handler whose guards are dropped,
\* the after hook saying the Err the handler returned, or the say of create,
\* after which create returns and its guard is dropped
Say(t) ==
    /\ task[t].pc \in {"say", "say held"}
    /\ reply' = Reply(task[t].msg)
    /\ task' = [task EXCEPT ![t] = IdleTask]
    /\ UNCHANGED <<tags, file, temp, poisoned, clock>>

\* the commands that write (create, invoke by name, edit, delete) as one
\* task runs them, with arguments from the given sets
Mutation(t, guilds, names, lookups, contents, authors, requesters, ios) ==
    \/ \E g \in guilds, n \in names, c \in contents, u \in authors :
          Create(t, g, n, c, u, ios)
    \/ \E g \in guilds, n \in lookups : InvokeGet(t, g, n)
    \/ \E g \in guilds, n \in lookups, c \in contents, u \in requesters :
          EditGet(t, g, n, c, u)
    \/ PutTag(t, ios)
    \/ \E g \in guilds, n \in lookups, u \in requesters : DeleteGet(t, g, n, u)
    \/ DeleteTag(t, ios)
    \/ Say(t)

\* the commands one task can be given, with arguments from the given sets
Command(t, guilds, names, lookups, contents, authors, requesters, ios) ==
    \/ Mutation(t, guilds, names, lookups, contents, authors, requesters, ios)
    \/ \E g \in guilds, n \in lookups : Info(t, g, n)
    \/ \E g \in guilds : List(t, g)

\* commands handled concurrently by the tasks of the framework's pool
Next ==
    \E t \in Tasks :
        Command(t, GuildArgs, {Some(NameUpper)}, {Some(NameUpper)},
                {<<WordHi>>, <<WordHi, WordYo>>}, {1}, {1}, SaveFaults)

Spec == Init /\ [][Next]_vars

\* one command at a time, each with its first argument, with every content
\* and user
NextSeq ==
    Command("t1", GuildArgs, {n \in NameArgs : IsSome(n)},
            {n \in LookupArgs : IsSome(n)}, ContentArgs, Users, Users, SaveFaults)

SpecSeq == Init /\ [][NextSeq]_vars

\* names for verify_tag_name, around its limits
NameLong == Repeat(97, NameLimit)                    \* 100 times "a"
NameTooLong == Repeat(97, NameLimit + 1)             \* 101 times "a"
NamePing == AtEveryone \o <<45, 112, 105, 110, 103>> \* "@everyone-ping"
NameWide == Repeat(233, 51)                          \* 51 times e-acute
VerifyNames == {NameA, NameUpper, NameHere, NameLong, NameTooLong, NamePing, NameWide}

\* creates only, one at a time, over the names for verify_tag_name
NextNames ==
    \/ \E g \in GuildArgs, n \in VerifyNames, c \in {<<>>, <<WordHi>>}, u \in Users :
          Create("t1", g, Some(n), c, u, SaveOutcomes)
    \/ Say("t1")

SpecNames == Init /\ [][NextNames]_vars

\* writing commands handled concurrently by two tasks, with one content
NextPair ==
    \E t \in Tasks :
        Mutation(t, GuildArgs, {Some(NameUpper)}, {Some(NameUpper)},
                {<<WordHi>>}, {1}, {1}, SaveFaults)

SpecPair == Init /\ [][NextPair]_vars

\* every command, with or without its first argument, handled concurrently
\* by two tasks, with file I/O that completes and handler threads that are
\* scheduled: a handler that has returned from get_tag goes on to its
\* put_tag or delete_tag, and a handler with an answer left says it
IoCompletes == {"done"}

NextFair ==
    \E t \in Tasks :
        Command(t, GuildArgs, NameArgs, LookupArgs,
                {<<WordHi>>}, {1}, {1}, IoCompletes)

SpecFair ==
    /\ Init
    /\ [][NextFair]_vars
    /\ \A t \in Tasks :
          /\ WF_vars(PutTag(t, IoCompletes))
          /\ WF_vars(DeleteTag(t, IoCompletes))
          /\ WF_vars(Say(t))

\* names of the tags of the files found at startup
NameB == <<98>>                                      \* "b"
NameAB == <<97, 98>>                                 \* "ab"
ListNames == {NameA, NameAB, NameB}

\* a bucket as an earlier run of the program saved it
LoadBucket(ns, names) ==
    [n \in names |->
        TagNew(n, Join(<<WordHi>>), 1, Some(0), Some(ns), Some(0), 0)]

\* the maps of the files found at startup
LoadMaps ==
    {EmptyMap}
    \cup {[ns \in {"generic"} |-> LoadBucket(ns, G)] : G \in SUBSET ListNames}
    \cup {[ns \in {"generic", "1"} |->
              LoadBucket(ns, IF ns = "generic" THEN G ELSE D)] :
              G \in SUBSET ListNames, D \in {{}, {NameB}, {NameAB, NameB}}}

\* tags.json at startup: absent, whole, or cut off
LoadFiles ==
    {None} \cup {Some(Document(m)) : m \in LoadMaps}
           \cup {Some(Truncated(m)) : m \in LoadMaps}

\* a task before TAGS is first dereferenced
BootTask == [IdleTask EXCEPT !.pc = "boot"]

\* the process starts in a directory that may hold a tags.json
InitLoad ==
    /\ tags = EmptyMap
    /\ file \in LoadFiles
    /\ temp = None
    /\ poisoned = FALSE
    /\ clock = 0
    /\ task = [t \in Tasks |-> BootTask]
    /\ reply = Reply("none")

\* Config::new in the lazy_static of TAGS, at its first dereference: a panic
\* of load leaves TAGS poisoned, and every later dereference panics
Start(t) ==
    /\ task[t].pc = "boot"
    /\ \E io \in LoadOutcomes :
          LET r == Load(file, io)
          IN  /\ tags' = r.cfg
              /\ poisoned' = (r.res = "panic")
              /\ reply' = Reply(r.res)
    /\ task' = [task EXCEPT ![t] = IdleTask]
    /\ UNCHANGED <<file, temp, clock>>

\* startup, then one command at a time, with every outcome of save
NextLoad ==
    \/ Start("t1")
    \/ Command("t1", GuildArgs, {Some(NameUpper)}, {Some(NameUpper)},
               {<<WordHi>>}, {1}, {1}, SaveOutcomes)

SpecLoad == InitLoad /\ [][NextLoad]_vars

----------------------------------------------------------------------------
(* Claims *)

\* the name as create, info, edit and delete normalise it
Normalised(raw) == ToLowercase(Trim(raw))

\* the tags stored under a namespace key
Stored(cfg, ns) == IF ns \in DOMAIN cfg THEN cfg[ns] ELSE EmptyMap

SomeNames == {n \in NameArgs : IsSome(n)}
SomeLookups == {n \in LookupArgs : IsSome(n)}
SomeContents == {c \in ContentArgs : c # <<>>}

\* in this step a handler of task t comes to have msg left to say
Decides(t, msg) ==
    /\ task[t].pc \notin {"say", "say held"}
    /\ task'[t].pc \in {"say", "say held"}
    /\ task'[t].msg = msg

\* in this step task t says msg
Says(t, msg) ==
    /\ task[t].pc \in {"say", "say held"}
    /\ task[t].msg = msg
    /\ task'[t].pc = "idle"
    /\ reply'.res = msg

\* C1: whenever create succeeds for a guild context, a name, a non-empty
\* content and an author, get_tag with the same context and the (normalised)
\* name on the map create leaves returns a tag with that name, that content,
\* that author as owner_id, and uses = 0.
C1_CreateThenGet ==
    \A g \in GuildArgs, n \in SomeNames, c \in SomeContents, u \in Users :
        LET r == CreateStep(tags, poisoned, clock, g, n, c, u)
            name == Normalised(Unwrap(n))
            got == GetTag(r.cfg, g, name)
        IN  r.res = "created" =>
              /\ IsSome(got)
              /\ Unwrap(got).name = name
              /\ Unwrap(got).content = Join(c)
              /\ Unwrap(got).owner_id = u
              /\ Unwrap(got).uses = 0

\* a create in the guild has just succeeded while the generic namespace
\* holds an older tag of the same name
C1_Witness ==
    /\ reply.res = "created"
    /\ NameA \in DOMAIN Stored(tags, "generic")
    /\ NameA \in DOMAIN Stored(tags, "1")
    /\ tags["1"][NameA].created_at > tags["generic"][NameA].created_at
    /\ tags["1"][NameA].uses = 0
    /\ tags["generic"][NameA].uses > 0

\* C2: in every reachable state, create with a name that is already in the
\* target namespace returns "Tag already exists.", leaves the whole
\* namespace map as it was and saves nothing.
\* Fails in the states where an earlier panic under the guard (C13, C19) has
\* poisoned the Mutex: create panics on lock() and returns no error.
C2_DuplicateRejected ==
    \A g \in GuildArgs, n \in SomeNames, c \in SomeContents, u \in Users :
        LET r == CreateStep(tags, poisoned, clock, g, n, c, u)
            name == Normalised(Unwrap(n))
        IN  name \in DOMAIN Stored(tags, GetDatabaseLocation(g)) =>
              /\ r.res = "Tag already exists."
              /\ r.cfg = tags
              /\ ~r.save

\* C3: in every reachable state, edit and delete of a visible tag by a
\* requester other than its owner return "You do not have permission to do
\* that." and hand nothing to put_tag or delete_tag; and the step in which
\* a handler comes to that error and the step in which it is said leave the
\* map and the file as they were, so that the tag stays as it is.
\* Fails in the states where an earlier panic under the guard (C13, C19) has
\* poisoned the Mutex: get_tag panics on lock() and no error is returned.
C3_NonOwnerRefused ==
    /\ [](\A g \in GuildArgs, n \in SomeLookups, c \in ContentArgs, u \in Users :
            LET got == GetTag(tags, g, Normalised(Unwrap(n)))
                refused == NotFound("You do not have permission to do that.")
            IN  (IsSome(got) /\ Unwrap(got).owner_id # u) =>
                  /\ EditStep(tags, poisoned, g, n, c, u) = refused
                  /\ DeleteStep(tags, poisoned, g, n, u) = refused)
    /\ [][(\E t \in Tasks :
              \/ Decides(t, "You do not have permission to do that.")
              \/ Says(t, "You do not have permission to do that.")) =>
            UNCHANGED <<tags, file>>]_vars

\* C7: whenever the generic namespace and a guild's namespace both hold a
\* tag of one name, get_possible_tags and get_tag for that guild return the
\* guild's tag, and for no guild the generic one.
C7_GuildWins ==
    \A g \in Guilds :
        \A n \in (DOMAIN Stored(tags, "generic")) \cap
                 (DOMAIN Stored(tags, GuildToString(g))) :
            /\ GetPossibleTags(tags, Some(g))[n] = tags[GuildToString(g)][n]
            /\ GetTag(tags, Some(g), n) = Some(tags[GuildToString(g)][n])
            /\ GetTag(tags, None, n) = Some(tags["generic"][n])

\* both namespaces hold a tag "a", and the two differ
C7_Witness ==
    /\ NameA \in DOMAIN Stored(tags, "generic")
    /\ NameA \in DOMAIN Stored(tags, "1")
    /\ tags["1"][NameA] # tags["generic"][NameA]

\* task t completes a successful invocation in this step: put_tag returns,
\* and the content is left to say
InvokeCompletes(t) ==
    /\ task[t].pc = "put"
    /\ task[t].op = "invoke"
    /\ Decides(t, "content")

\* C4: while a task is between its lookup of a tag (get_tag) and its write
\* (put_tag or delete_tag), no step of another task changes the namespace
\* map.
C4_LockHeldFromReadToWrite ==
    [][\A t \in Tasks :
          (task[t].pc \in {"put", "delete"} /\ task'[t] = task[t]) => tags' = tags]_vars

\* C5: every successful invocation leaves the tag's uses one above what the
\* store held just before its write, so that no increment is lost when
\* several invocations of one tag run concurrently.
C5_NoLostIncrement ==
    [][\A t \in Tasks :
          LET before == GetTag(tags, task[t].guild, task[t].name)
              after == GetTag(tags', task[t].guild, task[t].name)
          IN  (InvokeCompletes(t) /\ IsSome(before)) =>
                (IsSome(after) /\ Unwrap(after).uses = Unwrap(before).uses + 1)]_vars

\* C6: an invocation that finds the tag and goes through put_tag with
\* nothing in between raises the uses get_tag returns for the tag by one
\* (and so N of them in a row by N).
C6_SequentialIncrements ==
    \A g \in GuildArgs, n \in SomeLookups :
        LET f == InvokeStep(tags, poisoned, g, n)
            r == PutTagStep(tags, poisoned, g, f.name, Unwrap(f.tag))
            after == GetTag(r.cfg, g, f.name)
        IN  f.res = "found" =>
              /\ IsSome(after)
              /\ Unwrap(after).uses = Unwrap(GetTag(tags, g, f.name)).uses + 1

\* C8: every tag is stored under the namespace it was created in (which
\* create records in location).
C8_NamespaceNeverChanges ==
    \A ns \in DOMAIN tags :
        \A n \in DOMAIN tags[ns] : tags[ns][n].location = Some(ns)

\* C9: when delete by the owner of a visible tag goes through delete_tag and
\* reports success, get_tag for the name in the same context no longer
\* returns the tag that was deleted.
C9_DeleteRemoves ==
    \A g \in GuildArgs, n \in SomeLookups, u \in Users :
        LET f == DeleteStep(tags, poisoned, g, n, u)
            r == DeleteTagStep(tags, poisoned, g, f.name)
        IN  (f.res = "found" /\ r.res = "deleted") =>
              GetTag(r.cfg, g, f.name) # GetTag(tags, g, f.name)

\* C10: create rejects a (normalised) name with a validation error exactly
\* when the name contains "@everyone" or "@here" or is longer than 100
\* characters, and a rejected create leaves the map as it was.
C10_NameValidation ==
    \A n \in VerifyNames :
        LET name == Normalised(n)
            r == CreateStep(tags, FALSE, clock, None, Some(n), <<WordHi>>, 1)
            bad == \/ Contains(name, AtEveryone)
                   \/ Contains(name, AtHere)
                   \/ Len(name) > NameLimit
        IN  /\ bad <=> r.res \in {"Tag contains blocked words",
                                  "Tag name limit is 100 characters"}
            /\ bad => (r.cfg = tags /\ ~r.save)

\* the Err(..) messages of the handlers
ErrorReplies ==
    {"Please specify a name for the tag.",
     "Please specify some content for the tag.",
     "Tag contains blocked words",
     "Tag name limit is 100 characters",
     "Tag already exists.",
     "Tag not found",
     "You do not have permission to do that.",
     "Please specify a tag to edit.",
     "Please specify a tag to delete.",
     "Please specify a name for the tag to get info on.",
     "Either specify a tag name or use one of the available commands."}

\* no handler is between its lookup and its write: the states in which the
\* next command starts when commands are handled one at a time
NoHandlerPending == \A t \in Tasks : task[t].pc = "idle"

\* C11: a handler that ends in one of the errors (validation error or
\* duplicate on create, not found, no permission, empty content, missing
\* argument) has left the map as it was and has not called save, a lookup
\* that ends in one hands nothing to put_tag or delete_tag, and the step in
\* which a handler comes to the error and the step in which the error is
\* said leave the map, the file and the temporary files as they were.
C11_ErrorsChangeNothing ==
    /\ [](NoHandlerPending =>
          \A g \in GuildArgs, c \in ContentArgs, u \in Users :
            \A n \in NameArgs \cup {Some(NameHere), Some(NamePing)} :
                LET r == CreateStep(tags, poisoned, clock, g, n, c, u)
                IN  r.res \in ErrorReplies =>
                      (r.cfg = tags /\ ~r.save /\ ~r.poison))
    /\ [](NoHandlerPending =>
          \A g \in GuildArgs, n \in LookupArgs :
            /\ \A f \in {InvokeStep(tags, poisoned, g, n),
                          InfoStep(tags, poisoned, g, n)} :
                   f.res \in ErrorReplies => f = NotFound(f.res)
            /\ \A u \in Users :
                   /\ LET f == DeleteStep(tags, poisoned, g, n, u)
                      IN  f.res \in ErrorReplies => f = NotFound(f.res)
                   /\ \A c \in ContentArgs :
                          LET f == EditStep(tags, poisoned, g, n, c, u)
                          IN  f.res \in ErrorReplies => f = NotFound(f.res))
    /\ [][(\E t \in Tasks, msg \in ErrorReplies :
              Decides(t, msg) \/ Says(t, msg)) =>
            UNCHANGED <<tags, file, temp, poisoned>>]_vars

\* an edit or a create without content has just been refused, with a used
\* tag in the map and the map on disk
C11_Witness ==
    /\ reply.res = "Please specify some content for the tag."
    /\ file = Some(Document(tags))
    /\ \E ns \in DOMAIN tags : \E n \in DOMAIN tags[ns] : tags[ns][n].uses > 0

\* C12: save leaves at the target path the whole document of the map it was
\* given when it completes, and what was there before when it fails at the
\* creation of the temporary file, at the write or at the rename; so every
\* step that changes the target path puts there the whole document of the
\* map of that moment, and a step that leaves a temporary file behind
\* leaves the target path as it was.
C12_SaveIsAtomic ==
    /\ [](\A io \in SaveOutcomes :
            LET s == Save(tags, file, io)
            IN  /\ io = "done" => s.file = Some(Document(tags))
                /\ io # "done" => s.file = file)
    /\ [][file' # file => file' = Some(Document(tags'))]_vars
    /\ [][temp' # temp => file' = file]_vars

\* a write to the temporary file has failed part-way, and the target path
\* still holds the whole document of an older map
C12_Witness ==
    /\ IsSome(temp)
    /\ ~Unwrap(temp).complete
    /\ IsSome(file)
    /\ Unwrap(file).complete
    /\ file # Some(Document(tags))
    /\ reply.res = "panic"

\* C13: a step in which save fails and leaves its temporary file behind
\* ends with an error returned to the caller (no panic), with the mutation
\* applied in memory and with the lock usable by later operations.
C13_SaveFailureRecoverable ==
    [][(temp' # temp /\ IsSome(temp')) =>
          (reply'.res # "panic" /\ ~poisoned')]_vars

\* C14: load gives the empty map when there is no file, and panics when the
\* file is there and cannot be opened, read or parsed; a startup that
\* panics leaves the store out of service; while a file that cannot be
\* parsed is at the path the store is not in service; and neither such a
\* file nor the file of a store out of service is ever written over.
C14_LoadFailsOnBadFile ==
    /\ [](\A io \in LoadOutcomes :
            LET r == Load(file, io)
            IN  /\ ~IsSome(file) => r = [res |-> "fresh", cfg |-> EmptyMap]
                /\ (IsSome(file) /\ (io # "done" \/ ~Unwrap(file).complete)) =>
                      r.res = "panic")
    /\ [][(task["t1"].pc = "boot" /\ reply'.res = "panic") => poisoned']_vars
    /\ []((IsSome(file) /\ ~Unwrap(file).complete) =>
             (task["t1"].pc = "boot" \/ poisoned))
    /\ [][((IsSome(file) /\ ~Unwrap(file).complete) \/ poisoned) =>
             file' = file]_vars

\* startup has panicked on a file that is cut off, and the file is still
\* there
C14_Witness ==
    /\ IsSome(file)
    /\ ~Unwrap(file).complete
    /\ Unwrap(file).json # {}
    /\ task["t1"].pc = "idle"
    /\ poisoned
    /\ tags = EmptyMap
    /\ reply.res = "panic"

EditCompletes(t) ==
    /\ task[t].pc = "put"
    /\ task[t].op = "edit"
    /\ Decides(t, "updated")

\* C16: a successful edit leaves the tag, as get_tag returns it in the
\* editor's context, with the name, owner_id, created_at, uses and location
\* the store held just before the edit's write; only content may differ.
C16_EditChangesOnlyContent ==
    [][\A t \in Tasks :
          LET before == GetTag(tags, task[t].guild, task[t].name)
              after == GetTag(tags', task[t].guild, task[t].name)
          IN  (EditCompletes(t) /\ IsSome(before)) =>
                /\ IsSome(after)
                /\ [Unwrap(after) EXCEPT !.content = Unwrap(before).content] =
                      Unwrap(before)]_vars

\* what create, edit, invoke and delete say on success
SuccessReplies == {"created", "updated", "content", "deleted"}

\* C17: the handler says its success message (or the tag's content) only
\* when its save has returned, that is after the rename: a handler comes to
\* have a success message to say only in the step in which its save puts
\* the whole document of the map at the target path and leaves the lock
\* healthy; a success message becomes the last answer only when such a
\* handler says it; and on no outcome of save other than completion is
\* anything said.
C17_SuccessAfterSave ==
    /\ [][\A t \in Tasks, msg \in SuccessReplies :
            Decides(t, msg) =>
              (file' = Some(Document(tags')) /\ temp' = temp /\ ~poisoned')]_vars
    /\ [][(reply' # reply /\ reply'.res \in SuccessReplies) =>
            \E t \in Tasks : Says(t, reply'.res)]_vars
    /\ [](\A io \in SaveOutcomes :
            LET ok == Save(tags, file, io).ok
            IN  \A said \in SuccessReplies :
                    Said(ok, said) \in SuccessReplies => io = "done")

\* a delete has just reported success, and the file holds the map without
\* the tag
C17_Witness ==
    /\ reply.res = "deleted"
    /\ "generic" \in DOMAIN tags
    /\ tags["generic"] = EmptyMap
    /\ file = Some(Document(tags))

\* a comes before b in the lexicographic order: a is a proper prefix of b,
\* or the first element at which they differ is smaller in a
LexLess(a, b) ==
    \E k \in 0..Len(a) :
        /\ k <= Len(b)
        /\ SubSeq(a, 1, k) = SubSeq(b, 1, k)
        /\ \/ (k = Len(a) /\ k < Len(b))
           \/ (k < Len(a) /\ k < Len(b) /\ a[k + 1] < b[k + 1])

\* the names visible in a context: those of generic and those of the guild
VisibleNames(cfg, g) ==
    (DOMAIN Stored(cfg, "generic")) \cup
    (IF IsSome(g) THEN DOMAIN Stored(cfg, GuildToString(Unwrap(g))) ELSE {})

\* C18: whenever list gets the lock, the names it says are exactly the
\* names visible in the context (generic and the guild's), each once, in
\* strictly ascending lexicographic order, and it says "No tags available."
\* exactly when there is none.
C18_ListSorted ==
    \A g \in GuildArgs :
        LET l == ListStep(tags, poisoned, g)
            visible == VisibleNames(tags, g)
        IN  ~poisoned =>
              /\ {l.names[i] : i \in 1..Len(l.names)} = visible
              /\ Len(l.names) = Cardinality(visible)
              /\ \A i, j \in 1..Len(l.names) :
                    i < j => LexLess(l.names[i], l.names[j])
              /\ (l.res = "No tags available.") <=> (visible = {})
              /\ (l.res = "Available tags") <=> (visible # {})

\* list has just answered in a store whose generic namespace and guild
\* share a name and which shows three names in the guild
C18_Witness ==
    /\ reply.res = "Available tags"
    /\ {NameA, NameB} \subseteq DOMAIN Stored(tags, "generic")
    /\ {NameAB, NameB} \subseteq DOMAIN Stored(tags, "1")
    /\ Cardinality(VisibleNames(tags, Some(1))) = 3

\* C19: when edit, invoke or delete has found the tag and the lock is
\* healthy, put_tag and delete_tag do not panic and do not poison the lock,
\* whether or not the caller's namespace has a bucket.
C19_MissingBucketCreated ==
    \A g \in GuildArgs, n \in SomeLookups, c \in SomeContents, u \in Users :
        /\ \A f \in {InvokeStep(tags, poisoned, g, n),
                      EditStep(tags, poisoned, g, n, c, u)} :
              f.res = "found" =>
                LET r == PutTagStep(tags, poisoned, g, f.name, Unwrap(f.tag))
                IN  r.res # "panic" /\ ~r.poison
        /\ LET f == DeleteStep(tags, poisoned, g, n, u)
               r == DeleteTagStep(tags, poisoned, g, f.name)
           IN  f.res = "found" => (r.res # "panic" /\ ~r.poison)

\* C20: in every step, every tag that is stored under the same namespace
\* and name before and after the step has uses after the step at least its
\* uses before.
C20_UsesNeverDecreases ==
    [][\A ns \in (DOMAIN tags) \cap (DOMAIN tags') :
          \A n \in (DOMAIN tags[ns]) \cap (DOMAIN tags'[ns]) :
              tags'[ns][n].uses >= tags[ns][n].uses]_vars

\* C21: every stored tag has no location (is_generic) exactly when it is
\* stored in the "generic" namespace, and a tag stored in a guild's
\* namespace has that guild's identifier as location.
C21_LocationAbsentIffGeneric ==
    \A ns \in DOMAIN tags :
        \A n \in DOMAIN tags[ns] :
            /\ IsGeneric(tags[ns][n]) <=> (ns = "generic")
            /\ ns # "generic" => tags[ns][n].location = Some(ns)

\* C22: whenever no task holds the lock and a mutation has completed
\* without failure (its save has put a file at the target path), the target
\* path holds the whole document of the map in memory; at most one task
\* holds the guard between two steps, and while one does no step changes
\* the map, the target path, the temporary files or the lock; every step
\* that changes the target path is a step of one task alone and puts there
\* the document of the whole map; every step that changes the map runs
\* save on it.
\* Fails after a save that panics (C13): the change made in memory before
\* save is kept, the target path holds the document of the map before it,
\* and the guard is dropped by the unwinding.
C22_SavesSerialized ==
    /\ []((Unlocked /\ IsSome(file)) => file = Some(Document(tags)))
    /\ [](Cardinality({t \in Tasks : task[t].pc = "say held"}) <= 1)
    /\ [][~Unlocked => UNCHANGED <<tags, file, temp, poisoned>>]_vars
    /\ [][file' # file =>
            /\ file' = Some(Document(tags'))
            /\ Cardinality({t \in Tasks : task'[t] # task[t]}) <= 1]_vars
    /\ [][tags' # tags => (file' = Some(Document(tags')) \/ poisoned')]_vars

\* C23: when a task calls put_tag (for an edit or an invocation) with a tag
\* it looked up in a namespace from which the tag has been deleted since,
\* the name stays absent from that namespace: only create brings a deleted
\* name back into the map and the persisted file.
C23_DeletedStaysDeleted ==
    [][\A t \in Tasks :
          LET ns == GetDatabaseLocation(task[t].guild)
          IN  (/\ task[t].pc = "put"
               /\ task'[t].pc # "put"
               /\ Unwrap(task[t].tag).location = Some(ns)
               /\ ~TagExists(Stored(tags, ns), task[t].name))
              => ~TagExists(Stored(tags', ns), task[t].name)]_vars

\* every handler that has started ends
OperationsFinish ==
    \A t \in Tasks : (task[t].pc # "idle") ~> (task[t].pc = "idle")

\* C24: with threads that are scheduled and file I/O that completes, every
\* operation a task has started ends, and a mutation that has passed its
\* lookup and its ownership check runs through its write and its save: the
\* step of its put_tag or delete_tag ends with its success left to say.
C24_OperationsComplete ==
    /\ OperationsFinish
    /\ [][\A t \in Tasks :
            (task[t].pc \in {"put", "delete"} /\ task'[t] # task[t])
            => \E msg \in {"content", "updated", "deleted"} : Decides(t, msg)]_vars

====
